---------------------------- MODULE Spec2Model ----------------------------
(***************************************************************************)
(* A model of rthomas/kvs.                                                 *)
(*                                                                         *)
(*  - src/src/append_log.rs: the AppendLog, a file of length-prefixed      *)
(*    bincode frames with an in-memory index from key to frame offset.     *)
(*    Files are modelled byte by byte; the two file handles of an          *)
(*    InnerAppendLog are modelled by their cursors.                        *)
(*  - src/src/lib.rs: the KvStore, an in-memory Log of entries that is     *)
(*    written to one JSON file.  That file is modelled character by        *)
(*    character.                                                           *)
(*                                                                         *)
(* The two components do not call each other in this source tree, so a     *)
(* behaviour exercises one of them; `unit` says which.                     *)
(***************************************************************************)
EXTENDS Integers, Sequences, FiniteSets, TLC

VARIABLES
    unit,            \* "AppendLog" or "KvStore": the component exercised
    files,           \* the directory of log files: path -> bytes of the file
    path,            \* the path the AppendLog is bound to
    loaded,          \* TRUE while an AppendLog value exists
    index,           \* InnerAppendLog.index: key -> offset
    entry_count,     \* InnerAppendLog.entry_count
    log_file_write,  \* cursor of InnerAppendLog.log_file_write
    log_file_read,   \* cursor of InnerAppendLog.log_file_read
    appended,        \* history: per file, the last append made for each key
    kv_disk,         \* the file of the KvStore: name -> characters of the file
    kv_open,         \* TRUE while a KvStore value exists
    KvStore_log,     \* KvStore.log.entries
    KvStore_log_len, \* KvStore.log_len
    KvStore_store,   \* KvStore.store: key -> position in log.entries
    kv_last,         \* history: the last set/remove made on this KvStore per key
    kv_at_close,     \* history: while dropped, what get returned before the drop
    kv_run,          \* history: the sets of one key made since a fresh store opened
    res              \* what the last call returned

log_vars == <<files, path, loaded, index, entry_count, log_file_write,
              log_file_read, appended>>
kv_vars == <<kv_disk, kv_open, KvStore_log, KvStore_log_len, KvStore_store,
             kv_last, kv_at_close, kv_run>>
vars == <<unit, log_vars, kv_vars, res>>

---------------------------------------------------------------------------
(* Bounds of the model.                                                    *)

\* Appends are made while the files of the directory hold fewer frames than this.
MaxFrames == 3
\* The paths a caller passes to load and compact: generation 0 (which exists
\* from the start, empty) and generation 1.
Paths == {0, 1}

\* Keys and values are byte strings: "a", "bb" and "1", "22".
Keys == { <<97>>, <<98, 98>> }
Vals == { <<49>>, <<50, 50>> }

\* Option<Box<[u8]>>
None == [some |-> FALSE, v |-> <<>>]
Some(x) == [some |-> TRUE, v |-> x]

Min(a, b) == IF a <= b THEN a ELSE b
Max(a, b) == IF a >= b THEN a ELSE b

\* The iteration orders a HashMap over the key set S may produce.
Orders(S) ==
    { f \in [1 .. Cardinality(S) -> S] :
        \A i, j \in 1 .. Cardinality(S) : i # j => f[i] # f[j] }

---------------------------------------------------------------------------
(* The frame format: a big-endian u32 length and a bincode body.           *)

\* LogEntry::new
LogEntry(cmd, key, val) == [cmd |-> cmd, key |-> key, val |-> val]

\* write_u32::<BigEndian>(n as u32): the low 32 bits, most significant first.
write_u32_BE(n) ==
    << (n \div 16777216) % 256, (n \div 65536) % 256, (n \div 256) % 256, n % 256 >>

\* read_u32::<BigEndian> of the four bytes that follow position pos (0-based).
\* A first byte of 128 or more is a length of 2^31 or more: no file of the
\* model holds that many bytes, so it is reported as -1 (read_exact then fails).
read_u32_BE(b, pos) ==
    IF b[pos + 1] >= 128 THEN -1
    ELSE b[pos + 1] * 16777216 + b[pos + 2] * 65536 + b[pos + 3] * 256 + b[pos + 4]

\* bincode's u64 length prefix, little-endian; lengths of the model are < 2^31.
u64_LE(n) ==
    << n % 256, (n \div 256) % 256, (n \div 65536) % 256, (n \div 16777216) % 256,
       0, 0, 0, 0 >>

\* The u64 at position pos (0-based); -1 when it is 2^31 or more, which
\* exceeds the bytes that can follow it.
read_u64_LE(b, pos) ==
    IF \/ b[pos + 4] >= 128
       \/ \E i \in 5 .. 8 : b[pos + i] # 0
    THEN -1
    ELSE b[pos + 1] + b[pos + 2] * 256 + b[pos + 3] * 65536 + b[pos + 4] * 16777216

\* The variant index of LogCommand: u32, little-endian.
variant_LE(cmd) == IF cmd = "Set" THEN <<0, 0, 0, 0>> ELSE <<1, 0, 0, 0>>

\* bincode::serialize(&LogEntry): cmd, key, val in field order.
bincode_serialize(entry) ==
    variant_LE(entry.cmd)
    \o u64_LE(Len(entry.key)) \o entry.key
    \o (IF entry.val.some
        THEN <<1>> \o u64_LE(Len(entry.val.v)) \o entry.val.v
        ELSE <<0>>)

DeserializeError == [ok |-> FALSE, entry |-> LogEntry("Set", <<>>, None)]

\* bincode::deserialize::<LogEntry>(b): trailing bytes are not looked at.
bincode_deserialize(b) ==
    IF Len(b) < 12 THEN DeserializeError
    ELSE
    LET tag  == SubSeq(b, 1, 4)
        klen == read_u64_LE(b, 4)
    IN  IF tag \notin { <<0, 0, 0, 0>>, <<1, 0, 0, 0>> } THEN DeserializeError
        ELSE IF klen < 0 \/ 12 + klen + 1 > Len(b) THEN DeserializeError
        ELSE
        LET cmd  == IF tag = <<0, 0, 0, 0>> THEN "Set" ELSE "Remove"
            key  == SubSeq(b, 13, 12 + klen)
            opt  == b[13 + klen]
            vpos == 13 + klen            \* bytes consumed so far
        IN  IF opt = 0 THEN [ok |-> TRUE, entry |-> LogEntry(cmd, key, None)]
            ELSE IF opt # 1 THEN DeserializeError
            ELSE IF vpos + 8 > Len(b) THEN DeserializeError
            ELSE
            LET vlen == read_u64_LE(b, vpos)
            IN  IF vlen < 0 \/ vpos + 8 + vlen > Len(b) THEN DeserializeError
                ELSE [ok |-> TRUE,
                      entry |-> LogEntry(cmd, key,
                                  Some(SubSeq(b, vpos + 9, vpos + 8 + vlen)))]

\* The body of a frame of length len read at offset off, deserialized; err
\* is the error the ? operator returns: a bincode::Error here.
read_frame_body(d, off, len) ==
    [ok |-> d.ok, err |-> IF d.ok THEN "Ok" ELSE "Bincode",
     entry |-> d.entry, next |-> off + 4 + len]

\* The frame whose length prefix says len, at offset off.
read_frame_of(file, off, len) ==
    IF len < 0 \/ off + 4 + len > Len(file)
    THEN [ok |-> FALSE, err |-> "UnexpectedEof",
          entry |-> DeserializeError.entry, next |-> off]
    ELSE read_frame_body(bincode_deserialize(SubSeq(file, off + 5, off + 4 + len)),
                         off, len)

\* One frame read at byte offset off: the length, then exactly that many
\* bytes, then the body deserialized.  next is the offset after the frame.
\* read_u32 and read_exact fail with io::ErrorKind::UnexpectedEof when the
\* file ends before the bytes they need.
read_frame(file, off) ==
    IF off + 4 > Len(file)
    THEN [ok |-> FALSE, err |-> "UnexpectedEof",
          entry |-> DeserializeError.entry, next |-> off]
    ELSE read_frame_of(file, off, read_u32_BE(file, off))

\* Capacity of a std::io::BufReader: what one fill reads ahead.
BufReaderCapacity == 8192

---------------------------------------------------------------------------
(* InnerAppendLog.  A log value is a record                                *)
(*   [file, index, entry_count, log_file_write, log_file_read]             *)
(* where file is the content of the file both handles are open on.         *)

EmptyIndex == [k \in {} |-> 0]

\* HashMap::insert / HashMap::remove
index_insert(idx, key, off) ==
    [k \in DOMAIN idx \cup {key} |-> IF k = key THEN off ELSE idx[k]]
index_remove(idx, key) == [k \in DOMAIN idx \ {key} |-> idx[k]]

\* The struct literal of load and compact: nothing indexed, both cursors at 0.
InnerAppendLog(file) ==
    [file |-> file, index |-> EmptyIndex, entry_count |-> 0,
     log_file_write |-> 0, log_file_read |-> 0]

\* append, but a Set leaves the offset of a key already indexed as it was.
append_keeps_first_offset(log, cmd, key, val) ==
    LET entry  == LogEntry(cmd, key, val)
        offset == log.log_file_write
        entry_encoded == bincode_serialize(entry)
        file2  == log.file \o write_u32_BE(Len(entry_encoded)) \o entry_encoded
    IN  [log EXCEPT
           !.file = file2,
           !.log_file_write = Len(file2),
           !.entry_count = @ + 1,
           !.index = IF cmd = "Set"
                     THEN (IF entry.key \in DOMAIN @ THEN @
                           ELSE index_insert(@, entry.key, offset))
                     ELSE index_remove(@, entry.key)]

\* append, but entry_count is not incremented.
append_without_count(log, cmd, key, val) ==
    LET entry  == LogEntry(cmd, key, val)
        offset == log.log_file_write
        entry_encoded == bincode_serialize(entry)
        file2  == log.file \o write_u32_BE(Len(entry_encoded)) \o entry_encoded
    IN  [log EXCEPT
           !.file = file2,
           !.log_file_write = Len(file2),
           !.index = IF cmd = "Set" THEN index_insert(@, entry.key, offset)
                     ELSE index_remove(@, entry.key)]

\* append, but the offset is taken after the frame is written.
append_offset_after_write(log, cmd, key, val) ==
    LET entry  == LogEntry(cmd, key, val)
        entry_encoded == bincode_serialize(entry)
        file2  == log.file \o write_u32_BE(Len(entry_encoded)) \o entry_encoded
        offset == Len(file2)
    IN  [log EXCEPT
           !.file = file2,
           !.log_file_write = Len(file2),
           !.entry_count = @ + 1,
           !.index = IF cmd = "Set" THEN index_insert(@, entry.key, offset)
                     ELSE index_remove(@, entry.key)]

\* append, but the offset is the position of the read handle.
append_offset_from_read_handle(log, cmd, key, val) ==
    LET entry  == LogEntry(cmd, key, val)
        offset == log.log_file_read
        entry_encoded == bincode_serialize(entry)
        file2  == log.file \o write_u32_BE(Len(entry_encoded)) \o entry_encoded
    IN  [log EXCEPT
           !.file = file2,
           !.log_file_write = Len(file2),
           !.entry_count = @ + 1,
           !.index = IF cmd = "Set" THEN index_insert(@, entry.key, offset)
                     ELSE index_remove(@, entry.key)]

\* append, but the write handle truncates the file it opens.
append_truncating(log, cmd, key, val) ==
    LET entry  == LogEntry(cmd, key, val)
        offset == log.log_file_write
        entry_encoded == bincode_serialize(entry)
        file2  == write_u32_BE(Len(entry_encoded)) \o entry_encoded
    IN  [log EXCEPT
           !.file = file2,
           !.log_file_write = Len(file2),
           !.entry_count = @ + 1,
           !.index = IF cmd = "Set" THEN index_insert(@, entry.key, offset)
                     ELSE index_remove(@, entry.key)]

\* InnerAppendLog::append.  The write handle is in append mode: the frame
\* lands at the end of the file whatever the cursor is, the BufWriter is
\* drained when it goes out of scope, and the cursor is then at the new end.
append(log, cmd, key, val) ==
    LET entry  == LogEntry(cmd, key, val)
        offset == log.log_file_write
        entry_encoded == bincode_serialize(entry)
        file2  == log.file \o write_u32_BE(Len(entry_encoded)) \o entry_encoded
    IN  [log EXCEPT
           !.file = file2,
           !.log_file_write = Len(file2),
           !.entry_count = @ + 1,
           !.index = IF cmd = "Set" THEN index_insert(@, entry.key, offset)
                     ELSE index_remove(@, entry.key)]

\* InnerAppendLog::contains
contains(log, key) == key \in DOMAIN log.index

\* fetched, but the frame is read, unbuffered, through the write handle.
fetched_through_write_handle(log, offset, fr) ==
    [ok  |-> fr.ok,
     err |-> fr.err,
     val |-> IF fr.ok THEN fr.entry.val ELSE None,
     log |-> [log EXCEPT !.log_file_write = fr.next]]

\* What fetch_by_key returns once the frame fr at offset was read: the read
\* cursor is past what the BufReader took from the file.
fetched(log, offset, fr) ==
    [ok  |-> fr.ok,
     err |-> fr.err,
     val |-> IF fr.ok THEN fr.entry.val ELSE None,
     log |-> [log EXCEPT !.log_file_read =
                Max(offset, Min(Max(offset + BufReaderCapacity, fr.next),
                                Len(log.file)))]]

\* InnerAppendLog::fetch_by_key: [ok, err, val, log], log with the read
\* cursor moved.
fetch_by_key(log, key) ==
    IF key \notin DOMAIN log.index
    THEN [ok |-> TRUE, err |-> "Ok", val |-> None, log |-> log]
    ELSE fetched(log, log.index[key], read_frame(log.file, log.index[key]))

\* InnerAppendLog::len, is_empty, index_len
len(log) == log.entry_count
is_empty(log) == log.entry_count = 0
index_len(log) == Cardinality(DOMAIN log.index)

\* indexed, but a Remove frame leaves the index as it is.
indexed_ignoring_remove(log, entry_offset, fr) ==
    [log EXCEPT
       !.entry_count = @ + 1,
       !.index = IF fr.entry.cmd = "Set"
                 THEN index_insert(@, fr.entry.key, entry_offset)
                 ELSE @]

\* The log after one pass of the loop of build_index read the frame fr.
indexed(log, entry_offset, fr) ==
    [log EXCEPT
       !.entry_count = @ + 1,
       !.index = IF fr.entry.cmd = "Set"
                 THEN index_insert(@, fr.entry.key, entry_offset)
                 ELSE index_remove(@, fr.entry.key)]

\* The loop of build_index from read_count on.
RECURSIVE build_index_loop(_, _)
RECURSIVE build_index_pass(_, _, _)
\* build_index_pass, but a frame that cannot be read ends the scan quietly.
build_index_pass_stops_at_torn(log, read_count, fr) ==
    IF ~fr.ok THEN [ok |-> TRUE, err |-> "Ok", log |-> log]
    ELSE build_index_loop(indexed(log, read_count, fr), fr.next)

build_index_pass(log, read_count, fr) ==
    IF ~fr.ok THEN [ok |-> FALSE, err |-> fr.err, log |-> log]
    ELSE build_index_loop(indexed(log, read_count, fr), fr.next)

\* build_index_loop, but the loop ends only once read_count is past the end.
build_index_loop_reads_at_end(log, read_count) ==
    IF read_count > Len(log.file) THEN [ok |-> TRUE, err |-> "Ok", log |-> log]
    ELSE build_index_pass(log, read_count, read_frame(log.file, read_count))

build_index_loop(log, read_count) ==
    IF read_count >= Len(log.file) THEN [ok |-> TRUE, err |-> "Ok", log |-> log]
    ELSE build_index_pass(log, read_count, read_frame(log.file, read_count))

\* What build_index returns when its loop ended with r.
build_index_return(r, file) ==
    [ok |-> r.ok, err |-> r.err,
     log |-> [r.log EXCEPT !.log_file_write = Len(file)]]

\* InnerAppendLog::build_index: scans the file through the write handle,
\* adding to the index and the entry_count the log already has.  The scan
\* ends having read the whole file: the write cursor is at its end.
build_index(log) ==
    build_index_return(build_index_loop([log EXCEPT !.log_file_write = 0], 0),
                       log.file)

\* What load returns when build_index returned r.
load_return(r) == [err |-> r.err, log |-> r.log]

\* InnerAppendLog::load of a path of the directory fs: [err, log].
load(fs, p) ==
    IF p \notin DOMAIN fs THEN [err |-> "InvalidLogFile", log |-> InnerAppendLog(<<>>)]
    ELSE load_return(build_index(InnerAppendLog(fs[p])))

\* The for loop of compact over the keys in iteration order keys[i..]:
\* old is the log compacted, log the target, f what fetch_by_key returned
\* for keys[i].
RECURSIVE compact_loop(_, _, _, _)
RECURSIVE compact_pass(_, _, _, _)
compact_pass(f, log, keys, i) ==
    IF ~f.ok THEN [ok |-> FALSE, err |-> f.err, old |-> f.log, log |-> log]
    ELSE compact_loop(f.log,
                      IF f.val.some THEN append(log, "Set", keys[i], Some(f.val.v))
                      ELSE log,
                      keys, i + 1)

\* compact_loop, but the last key of the iteration is left out.
compact_loop_one_short(old, log, keys, i) ==
    IF i >= Len(keys) THEN [ok |-> TRUE, err |-> "Ok", old |-> old, log |-> log]
    ELSE compact_pass(fetch_by_key(old, keys[i]), log, keys, i)

compact_loop(old, log, keys, i) ==
    IF i > Len(keys) THEN [ok |-> TRUE, err |-> "Ok", old |-> old, log |-> log]
    ELSE compact_pass(fetch_by_key(old, keys[i]), log, keys, i)

\* compact_return, but the index of the log compacted was moved out of it
\* by the iteration instead of cloned.
compact_return_index_moved(c, b) ==
    IF ~c.ok THEN c
    ELSE [ok |-> b.ok, err |-> b.err,
          old |-> [c.old EXCEPT !.index = EmptyIndex], log |-> b.log]

\* What compact returns when its loop ended with c and build_index with b.
compact_return(c, b) ==
    IF ~c.ok THEN c
    ELSE [ok |-> b.ok, err |-> b.err, old |-> c.old, log |-> b.log]

\* The build_index call that ends compact.
compact_build_index(c) == compact_return(c, build_index(c.log))

\* InnerAppendLog::compact into a path that does not exist yet, the index
\* iterated in the order keys: [ok, old, log].
compact(old, keys) ==
    compact_build_index(compact_loop(old, InnerAppendLog(<<>>), keys, 1))

---------------------------------------------------------------------------
(* The AppendLog as state.                                                 *)

\* The InnerAppendLog held in AppendLog.inner.
Inner ==
    [file |-> files[path], index |-> index, entry_count |-> entry_count,
     log_file_write |-> log_file_write, log_file_read |-> log_file_read]

Ok == [op |-> "", err |-> "Ok", val |-> None]
Result(op, err, val) == [op |-> op, err |-> err, val |-> val]

\* The number of frames in a file, counted by their length prefixes alone.
RECURSIVE frame_count(_, _)
frame_count(file, off) ==
    IF off >= Len(file) THEN 0
    ELSE LET n == read_u32_BE(file, off)
         IN  IF off + 4 > Len(file) \/ n < 0 THEN 1
             ELSE 1 + frame_count(file, off + 4 + n)

\* The frames in the files ps of the directory fs.
RECURSIVE total_frames(_, _)
total_frames(fs, ps) ==
    IF ps = {} THEN 0
    ELSE LET p == CHOOSE q \in ps : TRUE
         IN  frame_count(fs[p], 0) + total_frames(fs, ps \ {p})

Bind(log, p) ==
    /\ files' = [q \in DOMAIN files \cup {p} |-> IF q = p THEN log.file ELSE files[q]]
    /\ path' = p
    /\ loaded' = TRUE
    /\ index' = log.index
    /\ entry_count' = log.entry_count
    /\ log_file_write' = log.log_file_write
    /\ log_file_read' = log.log_file_read

Unbound ==
    /\ loaded' = FALSE
    /\ index' = EmptyIndex
    /\ entry_count' = 0
    /\ log_file_write' = 0
    /\ log_file_read' = 0

NoHistory == [k \in Keys |-> [cmd |-> "", val |-> None]]

Init ==
    /\ unit \in {"AppendLog", "KvStore"}
    /\ files = (0 :> <<>>)
    /\ path = 0
    /\ loaded = FALSE
    /\ index = EmptyIndex
    /\ entry_count = 0
    /\ log_file_write = 0
    /\ log_file_read = 0
    /\ appended = [p \in Paths |-> NoHistory]
    /\ kv_disk = [n \in {} |-> <<>>]
    /\ kv_open = FALSE
    /\ KvStore_log = <<>>
    /\ KvStore_log_len = 0
    /\ KvStore_store = [k \in {} |-> 0]
    /\ kv_last = [k \in {<<"a">>, <<"b", "b">>} |-> [cmd |-> "", val |-> None]]
    /\ kv_at_close = [k \in {<<"a">>, <<"b", "b">>} |-> [err |-> "Ok", val |-> None]]
    /\ kv_run = [key |-> <<>>, n |-> -1]
    /\ res = Ok

\* AppendLog::load(p), load having returned r.
LoadReturns(r, p) ==
    /\ res' = Result("load", r.err, None)
    /\ IF r.err = "Ok" THEN Bind(r.log, p)
       ELSE UNCHANGED <<files, path, loaded, index, entry_count,
                        log_file_write, log_file_read>>

AppendLog_load(p) ==
    /\ unit = "AppendLog"
    /\ ~loaded
    /\ LoadReturns(load(files, p), p)
    /\ UNCHANGED <<unit, appended, kv_vars>>

\* The AppendLog goes out of scope; Drop calls flush, which does nothing.
AppendLog_drop ==
    /\ unit = "AppendLog"
    /\ loaded
    /\ Unbound
    /\ res' = Result("drop", "Ok", None)
    /\ UNCHANGED <<unit, files, path, appended, kv_vars>>

\* AppendLog::append(cmd, key, val)
AppendLog_append(cmd, key, val) ==
    /\ unit = "AppendLog"
    /\ loaded
    /\ total_frames(files, DOMAIN files) < MaxFrames
    /\ Bind(append(Inner, cmd, key, val), path)
    /\ appended' = [appended EXCEPT ![path][key] = [cmd |-> cmd, val |-> val]]
    /\ res' = Result("append", "Ok", None)
    /\ UNCHANGED <<unit, kv_vars>>

\* AppendLog::fetch_by_key(key), fetch_by_key having returned f.
FetchReturns(f) ==
    /\ Bind(f.log, path)
    /\ res' = Result("fetch_by_key", f.err, f.val)

AppendLog_fetch_by_key(key) ==
    /\ unit = "AppendLog"
    /\ loaded
    /\ FetchReturns(fetch_by_key(Inner, key))
    /\ UNCHANGED <<unit, appended, kv_vars>>

\* AppendLog::compact(new_path), compact having returned c: on success the
\* inner log is replaced by the one returned; the old file stays in the
\* directory.  On an error the target file stays as far as it was written.
CompactReturns(c, new_path) ==
    IF c.ok
    THEN /\ Bind(c.log, new_path)
         /\ appended' = [appended EXCEPT ![new_path] = appended[path]]
         /\ res' = Result("compact", "Ok", None)
    ELSE /\ files' = [q \in DOMAIN files \cup {new_path} |->
                        IF q = new_path THEN c.log.file ELSE files[q]]
         /\ log_file_read' = c.old.log_file_read
         /\ res' = Result("compact", c.err, None)
         /\ UNCHANGED <<path, loaded, index, entry_count,
                        log_file_write, appended>>

\* AppendLog_compact, but without the check that the target exists.
AppendLog_compact_clobbers(new_path) ==
    /\ unit = "AppendLog"
    /\ loaded
    /\ \E keys \in Orders(DOMAIN index) :
         CompactReturns(compact(Inner, keys), new_path)
    /\ UNCHANGED <<unit, kv_vars>>

\* AppendLog::compact(new_path)
AppendLog_compact(new_path) ==
    /\ unit = "AppendLog"
    /\ loaded
    /\ IF new_path \in DOMAIN files
       THEN /\ res' = Result("compact", "InvalidLogFile", None)
            /\ UNCHANGED <<files, path, loaded, index, entry_count,
                           log_file_write, log_file_read, appended>>
       ELSE \E keys \in Orders(DOMAIN index) :
              CompactReturns(compact(Inner, keys), new_path)
    /\ UNCHANGED <<unit, kv_vars>>

NextLog ==
    \/ \E p \in Paths : AppendLog_load(p)
    \/ AppendLog_drop
    \/ \E k \in Keys, v \in Vals : AppendLog_append("Set", k, Some(v))
    \/ \E k \in Keys : AppendLog_append("Remove", k, None)
    \/ \E k \in Keys : AppendLog_fetch_by_key(k)
    \/ \E p \in Paths : AppendLog_compact(p)

---------------------------------------------------------------------------
(* The KvStore of lib.rs: a Log of entries in memory, one JSON file.       *)
(* A String is the sequence of its characters.                             *)

\* Entries are pushed while the in-memory log is shorter than this.
MaxLog == 5
\* The sets of a run are counted up to this.
MaxRun == 11

COMPACTION_THRESHOLD == 4
DEFAULT_FILE_PREFIX == "kv_store.json"

\* The keys and values passed to set, get and remove: "a", "bb"; "1", "2".
KvKeys == { <<"a">>, <<"b", "b">> }
KvVals == { <<"1">>, <<"2">> }

\* lib.rs LogEntry::new
KvLogEntry(cmd, key, val) == [cmd |-> cmd, key |-> key, val |-> val]

\* The name of a LogCommand variant, as serde writes it.
variant_name(cmd) ==
    IF cmd = "Set" THEN <<"S", "e", "t">> ELSE <<"R", "e", "m", "o", "v", "e">>

Quote == "\""
json_string(str) == <<Quote>> \o str \o <<Quote>>
json_null == <<"n", "u", "l", "l">>
json_cmd_field == <<"{", Quote, "c", "m", "d", Quote, ":">>
json_key_field == <<",", Quote, "k", "e", "y", Quote, ":">>
json_val_field == <<",", Quote, "v", "a", "l", Quote, ":">>
json_entries_field == <<"{", Quote, "e", "n", "t", "r", "i", "e", "s", Quote, ":", "[">>

\* serde_json of one LogEntry: {"cmd":"Set","key":"a","val":"1"}
json_LogEntry(e) ==
    json_cmd_field \o json_string(variant_name(e.cmd))
    \o json_key_field \o json_string(e.key)
    \o json_val_field \o (IF e.val.some THEN json_string(e.val.v) ELSE json_null)
    \o <<"}">>

RECURSIVE json_entries(_, _)
json_entries(entries, i) ==
    IF i > Len(entries) THEN <<>>
    ELSE (IF i > 1 THEN <<",">> ELSE <<>>)
         \o json_LogEntry(entries[i]) \o json_entries(entries, i + 1)

\* serde_json::to_writer(writer, &Log): {"entries":[...]}
to_json(entries) == json_entries_field \o json_entries(entries, 1) \o <<"]", "}">>

\* Whether the characters lit stand in text from position pos (1-based) on.
has_at(text, pos, lit) ==
    /\ pos + Len(lit) - 1 <= Len(text)
    /\ SubSeq(text, pos, pos + Len(lit) - 1) = lit

\* The position of the first quote at or after pos; 0 when there is none.
RECURSIVE find_quote(_, _)
find_quote(text, pos) ==
    IF pos > Len(text) THEN 0
    ELSE IF text[pos] = Quote THEN pos
    ELSE find_quote(text, pos + 1)

\* A JSON string read at pos, its closing quote at close: [ok, str, next].
parse_string_to(text, pos, close) ==
    IF ~has_at(text, pos, <<Quote>>) \/ close = 0
    THEN [ok |-> FALSE, str |-> <<>>, next |-> pos]
    ELSE [ok |-> TRUE, str |-> SubSeq(text, pos + 1, close - 1), next |-> close + 1]

parse_string(text, pos) == parse_string_to(text, pos, find_quote(text, pos + 1))

ParseError == [ok |-> FALSE, entries |-> <<>>, next |-> 0]
EntryError == [ok |-> FALSE, entry |-> KvLogEntry("Set", <<>>, None), next |-> 0]

\* The val field, an Option<String>, and the closing brace of the entry.
parse_val(text, vpos, cmd, key, v) ==
    IF has_at(text, vpos, json_null)
    THEN IF has_at(text, vpos + 4, <<"}">>)
         THEN [ok |-> TRUE, entry |-> KvLogEntry(cmd, key, None), next |-> vpos + 5]
         ELSE EntryError
    ELSE IF v.ok /\ has_at(text, v.next, <<"}">>)
         THEN [ok |-> TRUE, entry |-> KvLogEntry(cmd, key, Some(v.str)),
               next |-> v.next + 1]
         ELSE EntryError

\* The key field, then the val field.
parse_key(text, cmd, k) ==
    IF ~k.ok \/ ~has_at(text, k.next, json_val_field) THEN EntryError
    ELSE parse_val(text, k.next + Len(json_val_field), cmd, k.str,
                   parse_string(text, k.next + Len(json_val_field)))

\* The cmd field, a LogCommand by its variant's name, then the key field.
parse_cmd(text, c) ==
    IF ~c.ok \/ c.str \notin {variant_name("Set"), variant_name("Remove")}
       \/ ~has_at(text, c.next, json_key_field)
    THEN EntryError
    ELSE parse_key(text, IF c.str = variant_name("Set") THEN "Set" ELSE "Remove",
                   parse_string(text, c.next + Len(json_key_field)))

\* One LogEntry read at pos, its fields in the order the writer gives them.
parse_LogEntry(text, pos) ==
    IF ~has_at(text, pos, json_cmd_field) THEN EntryError
    ELSE parse_cmd(text, parse_string(text, pos + Len(json_cmd_field)))

\* The elements of the entries array from pos on, up to its closing bracket.
RECURSIVE parse_entries(_, _, _)
RECURSIVE parse_entries_after(_, _, _)
parse_entries_after(text, e, acc) ==
    IF ~e.ok THEN ParseError
    ELSE IF has_at(text, e.next, <<",">>)
         THEN parse_entries(text, e.next + 1, Append(acc, e.entry))
    ELSE IF has_at(text, e.next, <<"]">>)
         THEN [ok |-> TRUE, entries |-> Append(acc, e.entry), next |-> e.next + 1]
    ELSE ParseError

parse_entries(text, pos, acc) ==
    parse_entries_after(text, parse_LogEntry(text, pos), acc)

\* Whitespace is all serde_json accepts after the value.
RECURSIVE only_whitespace(_, _)
only_whitespace(text, pos) ==
    \/ pos > Len(text)
    \/ /\ text[pos] \in {" ", "\n", "\t", "\r"}
       /\ only_whitespace(text, pos + 1)

\* The end of the document: the closing brace, then nothing but whitespace.
parse_end(text, arr) ==
    IF arr.ok /\ has_at(text, arr.next, <<"}">>) /\ only_whitespace(text, arr.next + 1)
    THEN arr
    ELSE ParseError

\* serde_json::from_reader::<Log>: the object the writer writes, and an error
\* for anything else, characters after the closing brace included.
from_json(text) ==
    IF ~has_at(text, 1, json_entries_field) THEN ParseError
    ELSE IF has_at(text, Len(json_entries_field) + 1, <<"]">>)
         THEN parse_end(text, [ok |-> TRUE, entries |-> <<>>,
                               next |-> Len(json_entries_field) + 2])
         ELSE parse_end(text, parse_entries(text, Len(json_entries_field) + 1, <<>>))

\* A write of text at offset 0 of a file opened without truncation.
write_at_start(file, text) ==
    text \o SubSeq(file, Len(text) + 1, Len(file))

\* A KvStore value is a record [log, log_len, store].
EmptyStore == [k \in {} |-> 0]

\* KvStore::build_index over entries[i..], positions counted from 0.
RECURSIVE KvStore_build_index(_, _, _)
KvStore_build_index(entries, i, idx) ==
    IF i > Len(entries) THEN idx
    ELSE KvStore_build_index(entries, i + 1,
           IF entries[i].cmd = "Set"
           THEN index_insert(idx, entries[i].key, i - 1)
           ELSE index_remove(idx, entries[i].key))

\* The KvStore old_open builds from what the file parsed to.
KvStore_opened(parsed, file) ==
    [err  |-> IF parsed.ok THEN "Ok" ELSE "Json",
     file |-> file,
     kv   |-> [log |-> parsed.entries,
               log_len |-> Len(parsed.entries),
               store |-> KvStore_build_index(parsed.entries, 1, EmptyStore)]]

\* The file old_open reads: a missing file is first created holding an
\* empty Log.
KvStore_seed(disk) ==
    IF DEFAULT_FILE_PREFIX \in DOMAIN disk
    THEN disk[DEFAULT_FILE_PREFIX] ELSE to_json(<<>>)

\* KvStore::old_open on the file: [err, kv, file].
KvStore_old_open(disk) ==
    KvStore_opened(from_json(KvStore_seed(disk)), KvStore_seed(disk))

\* KvStore::get: [err, val]
KvStore_get(kv, key) ==
    IF key \notin DOMAIN kv.store THEN [err |-> "Ok", val |-> None]
    ELSE IF kv.store[key] + 1 \in 1 .. Len(kv.log)
         THEN [err |-> "Ok", val |-> kv.log[kv.store[key] + 1].val]
         ELSE [err |-> "InternalKvError", val |-> None]

\* The for loop of compact_log over the keys in iteration order keys[i..].
RECURSIVE KvStore_compact_loop(_, _, _, _)
KvStore_compact_loop(kv, keys, i, new_log) ==
    IF i > Len(keys) THEN [ok |-> TRUE, new_log |-> new_log]
    ELSE IF kv.store[keys[i]] + 1 \in 1 .. Len(kv.log)
         THEN KvStore_compact_loop(kv, keys, i + 1,
                                   Append(new_log, kv.log[kv.store[keys[i]] + 1]))
         ELSE [ok |-> FALSE, new_log |-> new_log]

\* KvStore_compacted, but the store keeps the positions of the old log.
KvStore_compacted_stale_store(kv, c) ==
    IF ~c.ok THEN [err |-> "InternalKvError", kv |-> kv]
    ELSE [err |-> "Ok",
          kv  |-> [log |-> c.new_log,
                   log_len |-> Len(c.new_log),
                   store |-> kv.store]]

\* What compact_log leaves when its loop ended with c.
KvStore_compacted(kv, c) ==
    IF ~c.ok THEN [err |-> "InternalKvError", kv |-> kv]
    ELSE [err |-> "Ok",
          kv  |-> [log |-> c.new_log,
                   log_len |-> Len(c.new_log),
                   store |-> KvStore_build_index(c.new_log, 1, EmptyStore)]]

\* KvStore::compact_log, the store iterated in the order keys: [err, kv]
KvStore_compact_log(kv, keys) ==
    KvStore_compacted(kv, KvStore_compact_loop(kv, keys, 1, <<>>))

\* KvStore::flush_to_disk: [kv, file].  Nothing is written for an empty log;
\* otherwise the whole log is written from offset 0 over what the file holds.
KvStore_flush_to_disk(kv, file) ==
    IF Len(kv.log) = 0 THEN [kv |-> kv, file |-> file]
    ELSE [kv   |-> [kv EXCEPT !.log_len = Len(kv.log)],
          file |-> write_at_start(file, to_json(kv.log))]

\* try_compaction once flush_to_disk returned f.
KvStore_flushed(f) == [err |-> "Ok", kv |-> f.kv, file |-> f.file]

\* try_compaction once compact_log returned c.
KvStore_then_flush(c, file) ==
    IF c.err # "Ok" THEN [err |-> c.err, kv |-> c.kv, file |-> file]
    ELSE KvStore_flushed(KvStore_flush_to_disk(c.kv, file))

\* try_compaction, but compacting only after more than COMPACTION_THRESHOLD
\* mutations.
KvStore_try_compaction_more_than(kv, file, keys) ==
    IF Len(kv.log) - kv.log_len <= COMPACTION_THRESHOLD
    THEN [err |-> "Ok", kv |-> kv, file |-> file]
    ELSE KvStore_then_flush(KvStore_compact_log(kv, keys), file)

\* KvStore::try_compaction, the store iterated in the order keys: [err, kv, file]
KvStore_try_compaction(kv, file, keys) ==
    IF Len(kv.log) - kv.log_len < COMPACTION_THRESHOLD
    THEN [err |-> "Ok", kv |-> kv, file |-> file]
    ELSE KvStore_then_flush(KvStore_compact_log(kv, keys), file)

\* KvStore_set, but the store takes the length of the log after the push
\* as the position of the new entry.
KvStore_set_position_is_len(kv, key, val) ==
    LET entries == Append(kv.log, KvLogEntry("Set", key, Some(val)))
    IN  [kv EXCEPT !.log = entries,
                   !.store = index_insert(@, key, Len(entries))]

\* KvStore::set up to its call of try_compaction.
KvStore_set(kv, key, val) ==
    LET entries == Append(kv.log, KvLogEntry("Set", key, Some(val)))
    IN  [kv EXCEPT !.log = entries,
                   !.store = index_insert(@, key, Len(entries) - 1)]

\* KvStore_remove, but the key stays in the store.
KvStore_remove_keeps_key(kv, key) ==
    [kv EXCEPT !.log = Append(@, KvLogEntry("Remove", key, None))]

\* KvStore::remove of a key of the store, up to its call of try_compaction.
KvStore_remove(kv, key) ==
    [kv EXCEPT !.store = index_remove(@, key),
               !.log = Append(@, KvLogEntry("Remove", key, None))]

---------------------------------------------------------------------------
(* The KvStore as state.                                                   *)

Kv == [log |-> KvStore_log, log_len |-> KvStore_log_len, store |-> KvStore_store]

KvBind(kv, file) ==
    /\ kv_disk' = (DEFAULT_FILE_PREFIX :> file)
    /\ kv_open' = TRUE
    /\ KvStore_log' = kv.log
    /\ KvStore_log_len' = kv.log_len
    /\ KvStore_store' = kv.store

KvNoHistory == [k \in KvKeys |-> [cmd |-> "", val |-> None]]

\* A run is the sets made on a store that old_open created, as long as they
\* are sets of one key and nothing else changed the store; n counts them, up
\* to MaxRun.  NoRun when the store is not in such a run.
NoRun == [key |-> <<>>, n |-> -1]
RunStarts == [key |-> <<>>, n |-> 0]
RunAfterSet(run, key) ==
    IF run.n >= 0 /\ run.n < MaxRun /\ (run.n = 0 \/ run.key = key)
    THEN [key |-> key, n |-> run.n + 1]
    ELSE NoRun
NothingClosed == [k \in KvKeys |-> [err |-> "Ok", val |-> None]]

\* KvStore::old_open(path), old_open having returned r.
OldOpenReturns(r) ==
    /\ res' = Result("old_open", r.err, None)
    /\ IF r.err = "Ok" THEN KvBind(r.kv, r.file)
       ELSE /\ kv_disk' = (DEFAULT_FILE_PREFIX :> r.file)
            /\ UNCHANGED <<kv_open, KvStore_log, KvStore_log_len, KvStore_store>>

OldOpen ==
    /\ unit = "KvStore"
    /\ ~kv_open
    /\ OldOpenReturns(KvStore_old_open(kv_disk))
    /\ kv_last' = KvNoHistory
    /\ kv_at_close' = NothingClosed
    /\ kv_run' = IF DEFAULT_FILE_PREFIX \in DOMAIN kv_disk THEN NoRun ELSE RunStarts
    /\ UNCHANGED <<unit, log_vars>>

\* KvStore::get(key), get having returned g.
GetReturns(g) == res' = Result("get", g.err, g.val)

\* KvStore::get(key)
Get(key) ==
    /\ unit = "KvStore"
    /\ kv_open
    /\ GetReturns(KvStore_get(Kv, key))
    /\ UNCHANGED <<unit, log_vars, kv_vars>>

\* set and remove return what try_compaction returned, t.
TryCompactionReturns(t, op) ==
    /\ KvBind(t.kv, t.file)
    /\ res' = Result(op, t.err, None)

\* What set and remove do once the entry is pushed: try_compaction.
ThenTryCompaction(kv, op) ==
    \E keys \in Orders(DOMAIN kv.store) :
      TryCompactionReturns(
        KvStore_try_compaction(kv, kv_disk[DEFAULT_FILE_PREFIX], keys), op)

\* KvStore::set(key, val)
Set(key, val) ==
    /\ unit = "KvStore"
    /\ kv_open
    /\ Len(KvStore_log) < MaxLog
    /\ kv_last' = [kv_last EXCEPT ![key] = [cmd |-> "Set", val |-> Some(val)]]
    /\ kv_run' = RunAfterSet(kv_run, key)
    /\ UNCHANGED <<unit, log_vars, kv_at_close>>
    /\ ThenTryCompaction(KvStore_set(Kv, key, val), "set")

\* Remove, but without the check that the key is in the store.
Remove_without_contains_check(key) ==
    /\ unit = "KvStore"
    /\ kv_open
    /\ Len(KvStore_log) < MaxLog
    /\ ThenTryCompaction(KvStore_remove(Kv, key), "remove")
    /\ kv_last' = [kv_last EXCEPT ![key] = [cmd |-> "Remove", val |-> None]]
    /\ kv_run' = NoRun
    /\ UNCHANGED <<unit, log_vars, kv_at_close>>

\* KvStore::remove(key)
Remove(key) ==
    /\ unit = "KvStore"
    /\ kv_open
    /\ Len(KvStore_log) < MaxLog
    /\ IF key \notin DOMAIN KvStore_store
       THEN /\ res' = Result("remove", "KeyNotFound", None)
            /\ UNCHANGED kv_vars
       ELSE /\ kv_last' = [kv_last EXCEPT ![key] = [cmd |-> "Remove", val |-> None]]
            /\ kv_run' = NoRun
            /\ UNCHANGED kv_at_close
            /\ ThenTryCompaction(KvStore_remove(Kv, key), "remove")
    /\ UNCHANGED <<unit, log_vars>>

\* The KvStore goes out of scope: Drop calls flush_to_disk.
KvDrop ==
    /\ unit = "KvStore"
    /\ kv_open
    /\ kv_at_close' = [k \in KvKeys |-> KvStore_get(Kv, k)]
    /\ kv_disk' = (DEFAULT_FILE_PREFIX :>
                     KvStore_flush_to_disk(Kv, kv_disk[DEFAULT_FILE_PREFIX]).file)
    /\ kv_open' = FALSE
    /\ KvStore_log' = <<>>
    /\ KvStore_log_len' = 0
    /\ KvStore_store' = EmptyStore
    /\ kv_run' = NoRun
    /\ res' = Result("drop", "Ok", None)
    /\ UNCHANGED <<unit, log_vars, kv_last>>

NextKv ==
    \/ OldOpen
    \/ KvDrop
    \/ \E k \in KvKeys : Get(k)
    \/ \E k \in KvKeys, v \in KvVals : Set(k, v)
    \/ \E k \in KvKeys : Remove(k)

Next == NextLog \/ NextKv

\* Either component, exercised from its start.
Spec == Init /\ [][Next]_vars

\* The AppendLog alone.
InitLog == Init /\ unit = "AppendLog"
SpecLog == InitLog /\ [][NextLog]_vars

\* The KvStore alone.
InitKv == Init /\ unit = "KvStore"
SpecKv == InitKv /\ [][NextKv]_vars

---------------------------------------------------------------------------
(* Properties of the AppendLog.                                            *)

\* The offsets at which the frames of a file start.
RECURSIVE frame_starts(_, _)
frame_starts(file, off) ==
    IF off >= Len(file) THEN {}
    ELSE LET fr == read_frame(file, off)
         IN  IF ~fr.ok THEN {off} ELSE {off} \cup frame_starts(file, fr.next)

\* The records of the frames of a file, in file order.
RECURSIVE frame_entries(_, _)
frame_entries(file, off) ==
    IF off >= Len(file) THEN <<>>
    ELSE LET fr == read_frame(file, off)
         IN  IF ~fr.ok THEN <<>> ELSE <<fr.entry>> \o frame_entries(file, fr.next)

\* C1: after any appends, with no flush, fetch_by_key(k) returns the value of
\* the most recent Set of k when no Remove of k followed it, and None when k
\* was never Set or was last removed.
C1_LastWriteWins ==
    loaded =>
      \A k \in Keys :
        LET h == appended[path][k]
            f == fetch_by_key(Inner, k)
        IN  /\ f.ok
            /\ h.cmd = "Set" => f.val = h.val
            /\ h.cmd # "Set" => f.val = None

\* C1 witness: right after an append, three frames in the file, one key live
\* and the other one removed.
C1_Witness ==
    /\ loaded /\ res.op = "append"
    /\ frame_count(files[path], 0) = 3
    /\ \E k1, k2 \in Keys :
         /\ appended[path][k1].cmd = "Set"
         /\ appended[path][k2].cmd = "Remove"
         /\ fetch_by_key(Inner, k1).val = appended[path][k1].val

\* C4: a load of the file the AppendLog has appended to builds an index with
\* the key set of the index the writer maintained, and fetch_by_key returns
\* the same for every key.
C4_ReloadRoundTrip ==
    loaded =>
      LET r == load(files, path)
      IN  /\ r.err = "Ok"
          /\ DOMAIN r.log.index = DOMAIN index
          /\ \A k \in Keys :
               /\ fetch_by_key(r.log, k).ok = fetch_by_key(Inner, k).ok
               /\ fetch_by_key(r.log, k).val = fetch_by_key(Inner, k).val

\* C4 witness: the writer has just appended a Remove, one key is still live.
C4_Witness ==
    /\ loaded /\ res.op = "append"
    /\ DOMAIN index # {}
    /\ \E k \in Keys : appended[path][k].cmd = "Remove" /\ k \notin DOMAIN index
    /\ frame_count(files[path], 0) = 3

\* C6 as claimed: right after a successful compact, index_len() = len().
C6_CompactIndexLenIsLen ==
    (loaded /\ res.op = "compact" /\ res.err = "Ok") =>
      index_len(Inner) = len(Inner)

\* C7 as claimed: entry_count is the number of frames in the bound file.
C7_EntryCountIsFrameCount ==
    loaded => entry_count = frame_count(files[path], 0)

\* C8: index_len() <= len() in every state of an AppendLog.
C8_IndexLenLeLen ==
    loaded => index_len(Inner) <= len(Inner)

\* C8 witness: equality, both keys live after exactly two appends.
C8_Witness ==
    /\ loaded /\ res.op = "append"
    /\ index_len(Inner) = 2 /\ len(Inner) = 2

\* C9: every offset in the index is the first byte of a frame of the file,
\* and that frame deserializes to a Set record with the key it is indexed by.
C9_IndexOffsetsValid ==
    loaded =>
      \A k \in DOMAIN index :
        LET fr == read_frame(files[path], index[k])
        IN  /\ index[k] \in frame_starts(files[path], 0)
            /\ fr.ok
            /\ fr.entry.cmd = "Set"
            /\ fr.entry.key = k

\* C9 witness: a key indexed at a frame that is not the first one, after a
\* superseded Set of the same key.
C9_Witness ==
    /\ loaded
    /\ \E k \in DOMAIN index :
         /\ index[k] > 0
         /\ read_frame(files[path], 0).entry.key = k

\* C10: a successful compact binds a file holding exactly one Set frame per
\* key of the old index and nothing else, the new index has the key set of
\* the old one, and fetch_by_key returns for every key what it returned
\* before.
C10_CompactPreservesLive ==
    [][ (res'.op = "compact" /\ res'.err = "Ok") =>
          LET fe == frame_entries(files'[path'], 0)
          IN  /\ DOMAIN index' = DOMAIN index
              /\ \A k \in Keys :
                   /\ fetch_by_key(Inner', k).ok
                   /\ fetch_by_key(Inner', k).val = fetch_by_key(Inner, k).val
              /\ Len(files'[path']) = 0 \/ frame_starts(files'[path'], 0) # {}
              /\ Len(fe) = frame_count(files'[path'], 0)
              /\ Len(fe) = Cardinality(DOMAIN index)
              /\ \A i \in 1 .. Len(fe) :
                   fe[i].cmd = "Set" /\ fe[i].key \in DOMAIN index
              /\ \A k \in DOMAIN index : \E i \in 1 .. Len(fe) : fe[i].key = k
      ]_vars

\* C10 witness: a compact of a three-frame file with two live keys succeeded.
C10_Witness ==
    /\ loaded /\ res.op = "compact" /\ res.err = "Ok"
    /\ path = 1
    /\ frame_count(files[0], 0) = 3
    /\ Cardinality(DOMAIN index) = 2

---------------------------------------------------------------------------
(* Properties of the KvStore, and of both components.                      *)

\* C2: when the last set or remove made on key k was set(k, v), whatever
\* was done to other keys and whatever compactions ran, get(k) returns
\* Some(v).
C2_KvLastWriteWins ==
    kv_open =>
      \A k \in KvKeys :
        kv_last[k].cmd = "Set" =>
          KvStore_get(Kv, k) = [err |-> "Ok", val |-> kv_last[k].val]

\* C2 witness: a set has just compacted the log down to the two live keys.
C2_Witness ==
    /\ kv_open /\ res.op = "set"
    /\ Len(KvStore_log) = 2 /\ KvStore_log_len = 2
    /\ \A k \in KvKeys : kv_last[k].cmd = "Set"

\* C3: a key whose last operation was a successful remove (KvStore), or
\* whose last append was a Remove (AppendLog), is absent: get / fetch_by_key
\* return None and contains is false, whatever was done to other keys and
\* whatever compactions ran since.
C3_RemovedStaysAbsent ==
    /\ (unit = "AppendLog" /\ loaded) =>
         \A k \in Keys :
           appended[path][k].cmd = "Remove" =>
             /\ fetch_by_key(Inner, k).ok
             /\ fetch_by_key(Inner, k).val = None
             /\ ~contains(Inner, k)
    /\ (unit = "KvStore" /\ kv_open) =>
         \A k \in KvKeys :
           kv_last[k].cmd = "Remove" =>
             /\ KvStore_get(Kv, k) = [err |-> "Ok", val |-> None]
             /\ k \notin DOMAIN KvStore_store

\* C3 witness: one key was removed, then sets of the other key compacted
\* the log down to that other key.
C3_Witness ==
    /\ unit = "KvStore" /\ kv_open /\ res.op = "set"
    /\ Len(KvStore_log) = 1 /\ KvStore_log_len = 1
    /\ \E k1, k2 \in KvKeys :
         /\ kv_last[k1].cmd = "Remove"
         /\ kv_last[k2].cmd = "Set"

\* C5 as claimed: an old_open that follows a drop succeeds, and get returns
\* for every key what it returned before the drop.
C5_RestartDurability ==
    [][ res'.op = "old_open" =>
          /\ res'.err = "Ok"
          /\ \A k \in KvKeys : KvStore_get(Kv', k) = kv_at_close[k]
      ]_vars

---------------------------------------------------------------------------
(* Steps of the KvStore in which compact_log ran.                          *)

\* A set or remove step whose try_compaction ran compact_log with success:
\* the log it leaves is not the log with the new entry pushed.
CompactLogReturned ==
    /\ res'.err = "Ok"
    /\ \/ \E k \in KvKeys, v \in KvVals :
            /\ Set(k, v)
            /\ KvStore_log' # Append(KvStore_log, KvLogEntry("Set", k, Some(v)))
       \/ \E k \in KvKeys :
            /\ Remove(k)
            /\ k \in DOMAIN KvStore_store
            /\ KvStore_log' # Append(KvStore_log, KvLogEntry("Remove", k, None))

\* The files of a directory whose name begins with the log-file prefix.
log_files(disk) == { n \in DOMAIN disk : n = DEFAULT_FILE_PREFIX }

\* The generation suffix <N> of a log-file name <prefix>.<N>; the name the
\* KvStore gives its file is the bare prefix, which carries none: -1.
generation(name) == IF name = DEFAULT_FILE_PREFIX THEN -1 ELSE 0

\* C11 as claimed: after a successful compact_log the directory holds exactly
\* one file matching the log-file prefix pattern, and its generation suffix
\* is strictly greater than that of the log file before the call.
C11_CompactLogRollsGeneration ==
    [][ CompactLogReturned =>
          /\ Cardinality(log_files(kv_disk')) = 1
          /\ \A n \in log_files(kv_disk'), m \in log_files(kv_disk) :
               /\ generation(n) >= 0
               /\ generation(n) > generation(m)
      ]_vars

\* C12: remove(k) of a key that is not in the store fails with KeyNotFound
\* and leaves the log, the store, log_len and the file as they were (no
\* record pushed, no compaction); remove(k) of a key of the store succeeds,
\* erases k and pushes exactly one Remove record of k, after which only a
\* compaction down to the live keys may have run.
C12_RemoveMissingKeyNotFound ==
    [][ \A k \in KvKeys : (res'.op = "remove" /\ Remove(k)) =>
          IF k \notin DOMAIN KvStore_store
          THEN /\ res'.err = "KeyNotFound"
               /\ KvStore_log' = KvStore_log
               /\ KvStore_store' = KvStore_store
               /\ KvStore_log_len' = KvStore_log_len
               /\ kv_disk' = kv_disk
          ELSE /\ res'.err = "Ok"
               /\ DOMAIN KvStore_store' = DOMAIN KvStore_store \ {k}
               /\ \/ KvStore_log' =
                       Append(KvStore_log, KvLogEntry("Remove", k, None))
                  \/ /\ Len(KvStore_log') = Cardinality(DOMAIN KvStore_store')
                     /\ \A i \in 1 .. Len(KvStore_log') :
                          /\ KvStore_log'[i].cmd = "Set"
                          /\ KvStore_log'[i].key \in DOMAIN KvStore_store'
      ]_vars

\* C12 witness: a remove has just failed with KeyNotFound on a store that
\* holds the other key and whose log holds an earlier Remove.
C12_Witness ==
    /\ kv_open /\ res.op = "remove" /\ res.err = "KeyNotFound"
    /\ DOMAIN KvStore_store # {}
    /\ \E i \in 1 .. Len(KvStore_log) : KvStore_log[i].cmd = "Remove"

C14_CompactToExistingPathFails ==
    [][ \A p \in DOMAIN files : AppendLog_compact(p) =>
          /\ res'.err = "InvalidLogFile"
          /\ files' = files
          /\ loaded' /\ path' = path
          /\ index' = index
          /\ entry_count' = entry_count
          /\ \A k \in Keys :
               /\ fetch_by_key(Inner', k).ok = fetch_by_key(Inner, k).ok
               /\ fetch_by_key(Inner', k).val = fetch_by_key(Inner, k).val
      ]_vars

\* C14 witness: a compact into an existing path has just failed on a log
\* with a live key, both paths of the directory being files with frames.
C14_Witness ==
    /\ loaded /\ res.op = "compact" /\ res.err = "InvalidLogFile"
    /\ DOMAIN index # {}
    /\ \A p \in Paths : p \in DOMAIN files /\ Len(files[p]) > 0

---------------------------------------------------------------------------
(* A log file that something else than the AppendLog has written to.  The  *)
(* AppendLog opens its file by path and holds no lock on it: a write cut   *)
(* short by a crash, or another writer, leaves what load and fetch_by_key  *)
(* then find.                                                              *)

\* A file none of whose frames was damaged.
intact(file) ==
    \A off \in frame_starts(file, 0) :
      read_frame(file, off).ok /\ read_frame(file, off).entry.key \in Keys

\* The offset of the last frame of a file that has one.
last_frame(file) ==
    CHOOSE off \in frame_starts(file, 0) :
      \A o \in frame_starts(file, 0) : o <= off

\* The file with the bytes at positions from .. to (1-based) replaced by f[b].
overwritten(file, from, to, f) ==
    [i \in 1 .. Len(file) |-> IF i \in from .. to THEN f[file[i]] ELSE file[i]]

\* What the damage of one kind leaves of a file whose frame at off it hits:
\*   "body"   the file ends one byte short of the end of its last frame;
\*   "length" the file ends two bytes into the length of its last frame;
\*   "tag"    the variant index of the frame at off is no LogCommand;
\*   "key"    the key of the frame at off is another key of the same length.
damaged(file, off, kind) ==
    CASE kind = "body"   -> SubSeq(file, 1, Len(file) - 1)
      [] kind = "length" -> SubSeq(file, 1, last_frame(file) + 2)
      [] kind = "tag"    -> overwritten(file, off + 5, off + 5, [b \in 0 .. 255 |-> 2])
      [] kind = "key"    ->
           overwritten(file, off + 17,
                       off + 16 + Len(read_frame(file, off).entry.key),
                       [b \in 0 .. 255 |-> (b + 2) % 256])

\* A write to the only file of the directory was cut short, or a frame of
\* it decayed, while no AppendLog had it open.
DamageClosed ==
    /\ unit = "AppendLog"
    /\ ~loaded
    /\ DOMAIN files = {0}
    /\ Len(files[0]) > 0
    /\ intact(files[0])
    /\ \E off \in frame_starts(files[0], 0), kind \in {"body", "length", "tag"} :
         files' = [files EXCEPT ![0] = damaged(files[0], off, kind)]
    /\ res' = Ok
    /\ UNCHANGED <<unit, path, loaded, index, entry_count, log_file_write,
                   log_file_read, appended, kv_vars>>

\* Another writer overwrote a frame of the only file of the directory while
\* the AppendLog has it open.
DamageOpen ==
    /\ unit = "AppendLog"
    /\ loaded
    /\ DOMAIN files = {0}
    /\ Len(files[0]) > 0
    /\ intact(files[0])
    /\ \E off \in frame_starts(files[0], 0), kind \in {"tag", "key"} :
         files' = [files EXCEPT ![0] = damaged(files[0], off, kind)]
    /\ res' = Ok
    /\ UNCHANGED <<unit, path, loaded, index, entry_count, log_file_write,
                   log_file_read, appended, kv_vars>>

\* The AppendLog on a file that may be found damaged by load.
SpecLogTorn == InitLog /\ [][NextLog \/ DamageClosed]_vars

\* The AppendLog on a file that may be overwritten under it.
SpecLogDamaged == InitLog /\ [][NextLog \/ DamageOpen]_vars

\* The errors of reading a frame: what the spec calls Corruption.
Corruption == {"UnexpectedEof", "Bincode"}

\* C15 as claimed: fetch_by_key(k) of an indexed key returns a Corruption
\* error whenever the frame at the indexed offset does not deserialize or
\* deserializes to a record with another key.
C15_FetchDetectsCorruption ==
    loaded =>
      \A k \in DOMAIN index :
        LET fr == read_frame(files[path], index[k])
        IN  (~fr.ok \/ fr.entry.key # k) =>
              /\ ~fetch_by_key(Inner, k).ok
              /\ fetch_by_key(Inner, k).err \in Corruption

\* The offsets at which the length prefixes of a file say its frames start.
RECURSIVE prefix_starts(_, _)
prefix_starts(file, off) ==
    IF off >= Len(file) THEN {}
    ELSE IF off + 4 > Len(file) \/ read_u32_BE(file, off) < 0 THEN {off}
    ELSE {off} \cup prefix_starts(file, off + 4 + read_u32_BE(file, off))

\* Fewer than 4 length bytes remain at off.
truncated_length(file, off) == off + 4 > Len(file)

\* Fewer than L body bytes remain after the length L read at off.
truncated_body(file, off) ==
    /\ off + 4 <= Len(file)
    /\ \/ read_u32_BE(file, off) < 0
       \/ off + 4 + read_u32_BE(file, off) > Len(file)

\* The body of the frame at off is whole and does not deserialize.
undecodable(file, off) ==
    /\ ~truncated_length(file, off)
    /\ ~truncated_body(file, off)
    /\ ~bincode_deserialize(
           SubSeq(file, off + 5, off + 4 + read_u32_BE(file, off))).ok

\* C16: load(p) of a path that is no file fails with InvalidLogFile; load of
\* a file that ends in a truncated frame (fewer than 4 length bytes, or fewer
\* than L body bytes) or holds a frame whose body does not deserialize fails
\* with an error of reading a frame (Corruption); either way no AppendLog is
\* returned and no file is changed.
C16_LoadFailsOnBadFile ==
    [][ \A p \in Paths : AppendLog_load(p) =>
          /\ p \notin DOMAIN files =>
               /\ res'.err = "InvalidLogFile"
               /\ ~loaded'
               /\ files' = files
          /\ ( /\ p \in DOMAIN files
               /\ \E off \in prefix_starts(files[p], 0) :
                    \/ truncated_length(files[p], off)
                    \/ truncated_body(files[p], off)
                    \/ undecodable(files[p], off) ) =>
               /\ res'.err \in Corruption
               /\ ~loaded'
               /\ files' = files
      ]_vars

\* C16 witness: a load has just failed on a file whose second frame is cut
\* two bytes into its length.
C16_Witness ==
    /\ ~loaded /\ res.op = "load" /\ res.err = "UnexpectedEof"
    /\ \E off \in prefix_starts(files[0], 0) :
         off > 0 /\ truncated_length(files[0], off)

\* C17: load of a zero-length file succeeds and returns an AppendLog with
\* len() = 0, is_empty() = true, index_len() = 0, and fetch_by_key(k) = None
\* and contains(k) = false for every key k.
C17_LoadEmptyFile ==
    [][ \A p \in DOMAIN files : (AppendLog_load(p) /\ files[p] = <<>>) =>
          /\ res'.err = "Ok"
          /\ loaded' /\ path' = p
          /\ len(Inner') = 0
          /\ is_empty(Inner')
          /\ index_len(Inner') = 0
          /\ \A k \in Keys :
               /\ fetch_by_key(Inner', k).ok
               /\ fetch_by_key(Inner', k).val = None
               /\ ~contains(Inner', k)
      ]_vars

\* C17 witness: the empty file just loaded is the target of a compaction of
\* a log whose keys were all removed.
C17_Witness ==
    /\ loaded /\ res.op = "load" /\ res.err = "Ok"
    /\ path = 1 /\ files[1] = <<>>
    /\ Len(files[0]) > 0

\* C18: a read, fetch_by_key(k) of the AppendLog or get(k) of the KvStore,
\* of a present or an absent key, leaves the index, the entry count and the
\* files as they were, leaves the offset the next append records as it was,
\* and the same read made again at once returns the same result.
C18_ReadsHaveNoEffect ==
    [][ /\ \A k \in Keys : AppendLog_fetch_by_key(k) =>
             /\ files' = files
             /\ loaded' /\ path' = path
             /\ index' = index
             /\ entry_count' = entry_count
             /\ \A k2 \in Keys :
                  append(Inner', "Set", k2, Some(<<49>>)).index[k2]
                    = append(Inner, "Set", k2, Some(<<49>>)).index[k2]
             /\ fetch_by_key(Inner', k).err = res'.err
             /\ fetch_by_key(Inner', k).val = res'.val
        /\ \A k \in KvKeys : Get(k) =>
             /\ KvStore_log' = KvStore_log
             /\ KvStore_store' = KvStore_store
             /\ KvStore_log_len' = KvStore_log_len
             /\ kv_disk' = kv_disk
             /\ KvStore_get(Kv', k) = [err |-> res'.err, val |-> res'.val]
      ]_vars

\* C18 witness: fetch_by_key has just returned the value of a key whose frame
\* is followed by another frame, after an earlier read moved the cursor.
C18_Witness ==
    /\ unit = "AppendLog" /\ loaded
    /\ res.op = "fetch_by_key" /\ res.val.some
    /\ log_file_read > 0
    /\ \E k \in DOMAIN index :
         /\ read_frame(files[path], index[k]).entry.val = res.val
         /\ read_frame(files[path], index[k]).next < Len(files[path])

\* C19: every append succeeds, adds exactly 1 to entry_count and, for a Set,
\* records for the key the length the file had before the frame was written
\* and leaves the other keys of the index alone; for a Remove it erases the
\* key and leaves the others alone.  The appends compact makes into its
\* fresh target do the same: after them entry_count is the number of keys,
\* the first key is recorded at 0 and each next key at the end of the frame
\* of the key before it.
C19_AppendEffect ==
    [][ /\ \A k \in Keys, v \in Vals : AppendLog_append("Set", k, Some(v)) =>
             /\ res'.err = "Ok"
             /\ entry_count' = entry_count + 1
             /\ DOMAIN index' = DOMAIN index \cup {k}
             /\ index'[k] = Len(files[path])
             /\ \A j \in DOMAIN index \ {k} : index'[j] = index[j]
        /\ \A k \in Keys : AppendLog_append("Remove", k, None) =>
             /\ res'.err = "Ok"
             /\ entry_count' = entry_count + 1
             /\ DOMAIN index' = DOMAIN index \ {k}
             /\ \A j \in DOMAIN index \ {k} : index'[j] = index[j]
        /\ loaded =>
             \A keys \in Orders(DOMAIN index) :
               LET c == compact_loop(Inner, InnerAppendLog(<<>>), keys, 1)
               IN  /\ c.ok
                   /\ c.log.entry_count = Len(keys)
                   /\ DOMAIN c.log.index = DOMAIN index
                   /\ \A i \in 1 .. Len(keys) :
                        c.log.index[keys[i]] =
                          IF i = 1 THEN 0
                          ELSE read_frame(c.log.file,
                                          c.log.index[keys[i - 1]]).next
      ]_vars

\* C19 witness: an append has just been made to a compaction target that
\* held a frame: the key is recorded at an offset past that frame.
C19_Witness ==
    /\ loaded /\ res.op = "append"
    /\ path = 1
    /\ \E k \in DOMAIN index :
         /\ index[k] > 0
         /\ read_frame(files[1], index[k]).next = Len(files[1])

\* The frame append(cmd, key, val) adds is all that follows before in after.
one_frame_added(before, after, cmd, key, val) ==
    /\ Len(after) > Len(before)
    /\ SubSeq(after, 1, Len(before)) = before
    /\ read_u32_BE(after, Len(before)) = Len(after) - Len(before) - 4
    /\ read_frame(after, Len(before)).ok
    /\ read_frame(after, Len(before)).entry = LogEntry(cmd, key, val)

\* C20: an append leaves the bytes the bound file held unchanged and adds
\* one frame, that of the record appended, after them; it changes no other
\* file.  No step of the AppendLog, a compaction included, changes or removes
\* bytes a file of the directory holds: no file ever shrinks.
C20_AppendOnlyFile ==
    [][ /\ \A k \in Keys, v \in Vals : AppendLog_append("Set", k, Some(v)) =>
             /\ path' = path
             /\ one_frame_added(files[path], files'[path], "Set", k, Some(v))
             /\ \A p \in DOMAIN files \ {path} : files'[p] = files[p]
        /\ \A k \in Keys : AppendLog_append("Remove", k, None) =>
             /\ path' = path
             /\ one_frame_added(files[path], files'[path], "Remove", k, None)
             /\ \A p \in DOMAIN files \ {path} : files'[p] = files[p]
        /\ \A p \in DOMAIN files :
             /\ p \in DOMAIN files'
             /\ Len(files'[p]) >= Len(files[p])
             /\ SubSeq(files'[p], 1, Len(files[p])) = files[p]
      ]_vars

\* C20 witness: an append has just added a second frame to generation 0,
\* reloaded after it was compacted into generation 1.
C20_Witness ==
    /\ loaded /\ res.op = "append"
    /\ path = 0 /\ 1 \in DOMAIN files
    /\ frame_count(files[0], 0) >= 2

---------------------------------------------------------------------------
(* The log a compaction is called on.                                      *)

\* C21: a successful InnerAppendLog compact(new_path) leaves the log it is
\* called on unchanged: its index, its entry_count and the contents of its
\* file are after the call what they were before, whatever the order in
\* which the index was iterated, and the log returned is the one bound to
\* new_path, a path other than that of the log compacted.
C21_CompactLeavesOldLog ==
    [][ \A p \in Paths :
          (res'.op = "compact" /\ res'.err = "Ok" /\ AppendLog_compact(p)) =>
            /\ \A keys \in Orders(DOMAIN index) :
                 compact(Inner, keys).ok =>
                   /\ compact(Inner, keys).old.index = index
                   /\ compact(Inner, keys).old.entry_count = entry_count
                   /\ compact(Inner, keys).old.file = files[path]
            /\ p # path /\ path' = p
            /\ DOMAIN files' = DOMAIN files \cup {p}
            /\ \A q \in DOMAIN files : files'[q] = files[q]
            /\ \E keys \in Orders(DOMAIN index) :
                 /\ files'[p] = compact(Inner, keys).log.file
                 /\ index' = compact(Inner, keys).log.index
                 /\ entry_count' = compact(Inner, keys).log.entry_count
      ]_vars

\* C21 witness: a compaction has just succeeded on a log with a live key and
\* a superseded frame; the file it was called on is still in the directory
\* and is longer than the file of the log returned.
C21_Witness ==
    /\ loaded /\ res.op = "compact" /\ res.err = "Ok"
    /\ index # EmptyIndex
    /\ \E q \in DOMAIN files \ {path} : Len(files[q]) > Len(files[path])

---------------------------------------------------------------------------
(* The positions held in KvStore.store.                                    *)

\* C22: in every state reached by old_open, set, remove and compaction,
\* every value of the key-to-position map is a position of the in-memory
\* log whose entry is a Set record of that same key; so no call has
\* returned InternalKvError, get returns it for no key, and compact_log
\* fails with it for no iteration order of the map.
C22_StorePositionsValid ==
    /\ \A k \in DOMAIN KvStore_store :
         /\ KvStore_store[k] + 1 \in 1 .. Len(KvStore_log)
         /\ KvStore_log[KvStore_store[k] + 1].cmd = "Set"
         /\ KvStore_log[KvStore_store[k] + 1].key = k
    /\ res.err # "InternalKvError"
    /\ \A k \in KvKeys : KvStore_get(Kv, k).err # "InternalKvError"
    /\ \A keys \in Orders(DOMAIN KvStore_store) :
         KvStore_compact_log(Kv, keys).err # "InternalKvError"

\* C22 witness: a set has just compacted and written a log in which both
\* keys had been set twice; the store holds both keys at the positions of
\* the new two-entry log.
C22_Witness ==
    /\ kv_open /\ res.op = "set" /\ res.err = "Ok"
    /\ DOMAIN KvStore_store = KvKeys
    /\ Len(KvStore_log) = 2 /\ KvStore_log_len = 2
    /\ { KvStore_store[k] : k \in KvKeys } = {0, 1}

===========================================================================
